---- MODULE Spec2Model ----
(***************************************************************************)
(* csvsorter: external merge sort of a CSV file (src/__init__.py).         *)
(*                                                                         *)
(* Text is a sequence of code points, a row is a sequence of fields, a     *)
(* file is the text csv.writer produced.  Every chunk, merge and           *)
(* destination file is kept as text and read back through the csv.reader   *)
(* model, so the write/read round trip is part of every step.              *)
(***************************************************************************)
EXTENDS Integers, Sequences, FiniteSets, Bags, TLC

(***************************************************************************)
(* Bounds of the model.                                                    *)
(* MaxRows: rows of the input file; MaxMergeRows: rows mergesort is given; *)
(* MaxNway: the fan-in of mergesort; MaxLost: chunk files of one run whose *)
(* write fails unnoticed.                                                  *)
(***************************************************************************)
MaxRows == 3
MaxMergeRows == 5
MaxNway == 3
MaxLost == 1

(***************************************************************************)
(* Characters of the csv dialect (code points).                            *)
(***************************************************************************)
delimiter == 44
quotechar == 34
CR == 13
LF == 10

(* "a" and ",": the second needs quoting in a csv file and sorts first.    *)
FieldVals == { <<97>>, <<44>> }

(***************************************************************************)
(* Python comparison of str and of list.                                   *)
(***************************************************************************)
RECURSIVE StrLess(_, _)
(* s < t for str: code point by code point, a proper prefix is smaller.    *)
StrLess(s, t) ==
    IF t = <<>> THEN FALSE
    ELSE IF s = <<>> THEN TRUE
    ELSE IF Head(s) < Head(t) THEN TRUE
    ELSE IF Head(t) < Head(s) THEN FALSE
    ELSE StrLess(Tail(s), Tail(t))

RECURSIVE ListLess(_, _)
(* r1 < r2 for lists of str: element by element, a proper prefix is        *)
(* smaller.                                                                *)
ListLess(r1, r2) ==
    IF r2 = <<>> THEN FALSE
    ELSE IF r1 = <<>> THEN TRUE
    ELSE IF StrLess(Head(r1), Head(r2)) THEN TRUE
    ELSE IF StrLess(Head(r2), Head(r1)) THEN FALSE
    ELSE ListLess(Tail(r1), Tail(r2))

(***************************************************************************)
(* csv.writer                                                              *)
(***************************************************************************)
IsSpecial(c) == c \in {delimiter, quotechar, CR, LF}

NeedsQuote(field) == \E i \in 1..Len(field) : IsSpecial(field[i])

RECURSIVE DoubleQuotes(_)
DoubleQuotes(field) ==
    IF field = <<>> THEN <<>>
    ELSE (IF Head(field) = quotechar THEN <<quotechar, quotechar>>
          ELSE <<Head(field)>>) \o DoubleQuotes(Tail(field))

(* QUOTE_NONE cannot write a field that needs quoting: csv.Error.          *)
RowWritable(row, quoting) ==
    \/ quoting = "QUOTE_MINIMAL"
    \/ /\ \A i \in 1..Len(row) : ~NeedsQuote(row[i])
       /\ row # << <<>> >>

FieldText(field, alone) ==
    IF NeedsQuote(field) \/ (alone /\ field = <<>>)
    THEN <<quotechar>> \o DoubleQuotes(field) \o <<quotechar>>
    ELSE field

RECURSIVE JoinFields(_, _)
JoinFields(row, alone) ==
    IF row = <<>> THEN <<>>
    ELSE IF Len(row) = 1 THEN FieldText(row[1], alone)
    ELSE FieldText(row[1], alone) \o <<delimiter>> \o JoinFields(Tail(row), FALSE)

(* writer.writerow(row): the line terminator is "\r\n" and the file is     *)
(* opened with newline='\n', so it reaches the disk untranslated.          *)
WriteRow(row) == JoinFields(row, Len(row) = 1) \o <<CR, LF>>

RECURSIVE WriteRows(_)
WriteRows(rows) ==
    IF rows = <<>> THEN <<>> ELSE WriteRow(Head(rows)) \o WriteRows(Tail(rows))

(***************************************************************************)
(* open(..., 'r') + csv.reader                                             *)
(***************************************************************************)
RECURSIVE Translate(_)
(* universal newlines: "\r\n" and "\r" are read as "\n"                    *)
Translate(t) ==
    IF t = <<>> THEN <<>>
    ELSE IF Head(t) = CR
         THEN IF Len(t) >= 2 /\ t[2] = LF
              THEN <<LF>> \o Translate(Tail(Tail(t)))
              ELSE <<LF>> \o Translate(Tail(t))
         ELSE <<Head(t)>> \o Translate(Tail(t))

RECURSIVE Parse(_, _, _, _, _)
(* The reader's state machine over the translated text t:                  *)
(* st is its state, field and row what it has collected, rows the records  *)
(* already returned.                                                       *)
Parse(t, st, field, row, rows) ==
    IF t = <<>>
    THEN IF st = "START_RECORD" THEN rows
         ELSE Append(rows, Append(row, field))
    ELSE
      LET c == Head(t)
          r == Tail(t)
      IN CASE st = "START_RECORD" ->
                IF c = LF THEN Parse(r, "START_RECORD", <<>>, <<>>, Append(rows, <<>>))
                ELSE Parse(t, "START_FIELD", <<>>, <<>>, rows)
           [] st = "START_FIELD" ->
                IF c = LF THEN Parse(r, "START_RECORD", <<>>, <<>>, Append(rows, Append(row, <<>>)))
                ELSE IF c = quotechar THEN Parse(r, "IN_QUOTED_FIELD", <<>>, row, rows)
                ELSE IF c = delimiter THEN Parse(r, "START_FIELD", <<>>, Append(row, <<>>), rows)
                ELSE Parse(r, "IN_FIELD", <<c>>, row, rows)
           [] st = "IN_FIELD" ->
                IF c = LF THEN Parse(r, "START_RECORD", <<>>, <<>>, Append(rows, Append(row, field)))
                ELSE IF c = delimiter THEN Parse(r, "START_FIELD", <<>>, Append(row, field), rows)
                ELSE Parse(r, "IN_FIELD", Append(field, c), row, rows)
           [] st = "IN_QUOTED_FIELD" ->
                IF c = quotechar THEN Parse(r, "QUOTE_IN_QUOTED_FIELD", field, row, rows)
                ELSE Parse(r, "IN_QUOTED_FIELD", Append(field, c), row, rows)
           [] st = "QUOTE_IN_QUOTED_FIELD" ->
                IF c = quotechar THEN Parse(r, "IN_QUOTED_FIELD", Append(field, c), row, rows)
                ELSE IF c = delimiter THEN Parse(r, "START_FIELD", <<>>, Append(row, field), rows)
                ELSE IF c = LF THEN Parse(r, "START_RECORD", <<>>, <<>>, Append(rows, Append(row, field)))
                ELSE Parse(r, "IN_FIELD", Append(field, c), row, rows)

ReadRows(text) == Parse(Translate(text), "START_RECORD", <<>>, <<>>, <<>>)

(***************************************************************************)
(* Column specifiers: an int (zero-based position) or a str (header name). *)
(* A header is None or a row: a sequence of no row or of one row.          *)
(***************************************************************************)
IntCol(n) == [kind |-> "int", idx |-> n, name |-> <<>>]

NameCol(s) == [kind |-> "name", idx |-> 0, name |-> s]

None == <<>>

Some(row) == <<row>>

(* Python truth value of the header: None and the empty list are false.    *)
Truthy(header) == header # None /\ header[1] # <<>>

(* header.index(column), zero-based                                        *)
IndexOf(row, s) == (CHOOSE i \in 1..Len(row) :
                        row[i] = s /\ \A j \in 1..(i - 1) : row[j] # s) - 1

InRow(row, s) == \E i \in 1..Len(row) : row[i] = s

(* One pass of the loop of parse_columns: the resolved specifier or the    *)
(* CsvSortError it raises.                                                 *)
ResolveColumn(column, header) ==
    IF column.kind = "int"
    THEN IF Truthy(header) /\ column.idx >= Len(header[1])
         THEN [err |-> "ColumnOutOfRange", col |-> column]
         ELSE [err |-> "none", col |-> column]
    ELSE IF Truthy(header)
         THEN IF InRow(header[1], column.name)
              THEN [err |-> "none", col |-> IntCol(IndexOf(header[1], column.name))]
              ELSE [err |-> "ColumnNotFound", col |-> column]
         ELSE [err |-> "MissingHeader", col |-> column]

RECURSIVE ParseLoop(_, _, _)
(* The loop of lines 60-72 from specifier i on: columns is rewritten in    *)
(* place, so at an error it holds what the passes before have resolved.    *)
ParseLoop(columns, i, header) ==
    IF i > Len(columns) THEN [err |-> "none", cols |-> columns]
    ELSE LET r == ResolveColumn(columns[i], header)
         IN IF r.err # "none" THEN [err |-> r.err, cols |-> columns]
            ELSE ParseLoop([columns EXCEPT ![i] = r.col], i + 1, header)

(* [err, cols]: the first error in specifier order and the list as the     *)
(* loop left it, or the resolved list.                                     *)
parse_columns(columns, header) == ParseLoop(columns, 1, header)

(***************************************************************************)
(* csvsplit                                                                *)
(***************************************************************************)
RECURSIVE Allocated(_)
(* slots of a list grown by append to n items (CPython list_resize)        *)
Allocated(n) ==
    IF n = 0 THEN 0
    ELSE LET p == Allocated(n - 1)
         IN IF n <= p THEN p ELSE ((n + (n \div 8) + 6) \div 4) * 4

(* sys.getsizeof(row) of a row the reader built, 64-bit CPython            *)
getsizeof(row) == 56 + 8 * Allocated(Len(row))

(* max_size is held times MBScale, so that a fraction of a megabyte is an  *)
(* integer; max_size * 1024 * 1024 is then this many bytes.                *)
MBScale == 1048576

MaxBytes(max_size) == (max_size * 1024 * 1024) \div MBScale

RECURSIVE SplitRows(_, _, _, _, _)
(* The loop of csvsplit: chunks are the files so far (the last one being   *)
(* written when writer is set), current_size the running size.             *)
SplitRows(rows, max_bytes, chunks, writer, current_size) ==
    IF rows = <<>> THEN chunks
    ELSE LET row == Head(rows)
             cs == IF writer THEN [chunks EXCEPT ![Len(chunks)] = Append(@, row)]
                   ELSE Append(chunks, <<row>>)
             size == current_size + getsizeof(row)
         IN IF size > max_bytes
            THEN SplitRows(Tail(rows), max_bytes, cs, FALSE, 0)
            ELSE SplitRows(Tail(rows), max_bytes, cs, TRUE, size)

csvsplit(rows, max_size) == SplitRows(rows, MaxBytes(max_size), <<>>, FALSE, 0)

(***************************************************************************)
(* memorysort                                                              *)
(***************************************************************************)
(* the sort key of line 104: [row[column] for column in columns]           *)
Key(row, columns) == [i \in 1..Len(columns) |-> row[columns[i].idx + 1]]

(* row[column] raises IndexError                                           *)
HasKey(row, columns) == \A i \in 1..Len(columns) : columns[i].idx < Len(row)

RECURSIVE InsertStable(_, _, _)
(* row goes after every row whose key is <= its key                        *)
InsertStable(sorted, row, columns) ==
    IF sorted = <<>> THEN <<row>>
    ELSE IF ListLess(Key(row, columns), Key(Head(sorted), columns))
         THEN <<row>> \o sorted
         ELSE <<Head(sorted)>> \o InsertStable(Tail(sorted), row, columns)

RECURSIVE SortRows(_, _)
(* list.sort(key=...): ascending and stable                                *)
SortRows(rows, columns) ==
    IF rows = <<>> THEN <<>>
    ELSE InsertStable(SortRows(SubSeq(rows, 1, Len(rows) - 1), columns),
                      rows[Len(rows)], columns)

(***************************************************************************)
(* mergesort                                                               *)
(***************************************************************************)
(* heapq.merge of line 130 is given no key: it compares whole rows.        *)
MergeLess(r1, r2) == ListLess(r1, r2)

(* The stream heapq.merge takes from next: the smallest head, the first    *)
(* stream among equal heads.                                               *)
MinStream(streams) ==
    CHOOSE i \in 1..Len(streams) :
        /\ streams[i] # <<>>
        /\ \A j \in 1..Len(streams) :
              (j # i /\ streams[j] # <<>>) =>
                 IF j < i THEN MergeLess(Head(streams[i]), Head(streams[j]))
                          ELSE ~MergeLess(Head(streams[j]), Head(streams[i]))

RECURSIVE Merge(_)
(* heapq.merge over the row streams of the files of one pass               *)
Merge(streams) ==
    IF \A i \in 1..Len(streams) : streams[i] = <<>> THEN <<>>
    ELSE LET i == MinStream(streams)
         IN <<Head(streams[i])>> \o Merge([streams EXCEPT ![i] = Tail(@)])

(* One pass, lines 125-130: the text of the merged file from the texts of  *)
(* the files merged.                                                       *)
MergeFiles(texts) == WriteRows(Merge([i \in 1..Len(texts) |-> ReadRows(texts[i])]))

MaxOf(S) == CHOOSE x \in S : \A y \in S : y <= x

Min(a, b) == IF a < b THEN a ELSE b

RECURSIVE MergeSortTexts(_, _)
(* The loop of mergesort on the files' texts: what is left when at most    *)
(* one file remains.                                                       *)
MergeSortTexts(texts, n) ==
    IF Len(texts) <= 1 THEN texts
    ELSE MergeSortTexts(
            Append(SubSeq(texts, n + 1, Len(texts)),
                   MergeFiles(SubSeq(texts, 1, Min(n, Len(texts))))), n)

(***************************************************************************)
(* State                                                                   *)
(***************************************************************************)
VARIABLES
    pc,               \* position in csvsort
    input_rows,       \* the rows of the input file as given, header included
    has_header,       \* parameters of csvsort
    columns,
    max_size,
    quoting,
    output_filename,
    nway,             \* parameter of mergesort
    disk,             \* path -> text, of the input and the destination
    tmp_dir,          \* the workspace directory exists
    tmp,              \* file name -> text, of the files in the workspace
    header,           \* None or the header row
    reader,           \* rows the reader has not yet returned
    filenames,        \* filenames of csvsort, sorted_filenames of mergesort
    sort_i,           \* position of the loop of line 40
    merge_n,
    sorted_filename,
    raised,           \* the exception csvsort is ending with, or "none"
    rmtree_failed,    \* shutil.rmtree met an error, which it ignored
    write_lost        \* a write to a chunk file failed and was not raised

vars == <<pc, input_rows, has_header, columns, max_size, quoting,
          output_filename, nway, disk, tmp_dir, tmp, header, reader,
          filenames, sort_i, merge_n, sorted_filename, raised,
          rmtree_failed, write_lost>>

params == <<input_rows, has_header, max_size, quoting, output_filename, nway>>

(***************************************************************************)
(* Inputs                                                                  *)
(***************************************************************************)
(* A blank line, and the rows of two fields.                               *)
Rows == {<<>>} \cup {<<f, g>> : f, g \in FieldVals}

SeqsUpTo(S, n) == UNION {[1..k -> S] : k \in 0..n}

ColumnChoices == { <<IntCol(1)>>, <<IntCol(1), IntCol(0)>>,
                   <<NameCol(<<97>>)>>, <<IntCol(2)>> }

(* 0: one row a chunk; 88: two rows a chunk; 2000: one chunk               *)
MaxSizeChoices == {0, 88, 2000}

InputPath == "in.csv"

Dest == IF output_filename = "" THEN InputPath ELSE output_filename

SplitName(i) == <<"split", i>>

MergeName(i) == <<"merge", i>>

NoFiles == <<>>

Init ==
    /\ pc = "start"
    /\ input_rows \in SeqsUpTo(Rows, MaxRows)
    /\ has_header \in BOOLEAN
    /\ columns \in ColumnChoices
    /\ max_size \in MaxSizeChoices
    /\ quoting \in {"QUOTE_MINIMAL", "QUOTE_NONE"}
    /\ output_filename \in {"", "out.csv"}
    /\ nway = 2
    /\ disk = (InputPath :> WriteRows(input_rows))
    /\ tmp_dir = FALSE
    /\ tmp = NoFiles
    /\ header = None
    /\ reader = <<>>
    /\ filenames = <<>>
    /\ sort_i = 0
    /\ merge_n = 0
    /\ sorted_filename = SplitName(0)
    /\ raised = "none"
    /\ rmtree_failed = FALSE
    /\ write_lost = FALSE

(***************************************************************************)
(* csvsort, step by step                                                   *)
(***************************************************************************)
Raise(e) == /\ raised' = e
            /\ pc' = "finally"

(* lines 25-26: os.makedirs is before the try block. When it raises (a    *)
(* file has the workspace's name, the directory takes no new entry) no    *)
(* workspace exists and csvsort ends at once, without the finally clause. *)
Makedirs ==
    /\ pc = "start"
    /\ \/ /\ tmp_dir' = TRUE
          /\ pc' = "open"
          /\ UNCHANGED raised
       \/ /\ tmp_dir' = FALSE
          /\ pc' = "failed"
          /\ raised' = "OSError"
    /\ UNCHANGED <<params, write_lost, rmtree_failed, columns, disk, tmp,
                   header, reader, filenames, sort_i, merge_n,
                   sorted_filename>>

(* lines 29-34: next(reader) on a file without a line is StopIteration *)
ReadHeader ==
    /\ pc = "open"
    /\ LET rows == ReadRows(disk[InputPath])
       IN IF has_header
          THEN IF rows = <<>>
               THEN Raise("StopIteration") /\ UNCHANGED <<header, reader>>
               ELSE /\ header' = Some(Head(rows))
                    /\ reader' = Tail(rows)
                    /\ pc' = "parse"
                    /\ UNCHANGED raised
          ELSE /\ header' = None
               /\ reader' = rows
               /\ pc' = "parse"
               /\ UNCHANGED raised
    /\ UNCHANGED <<params, write_lost, rmtree_failed, columns, disk, tmp_dir,
                   tmp, filenames, sort_i, merge_n, sorted_filename>>

(* line 36 *)
ParseColumns ==
    /\ pc = "parse"
    /\ LET r == parse_columns(columns, header)
       IN IF r.err # "none"
          THEN Raise(r.err) /\ columns' = r.cols
          ELSE /\ columns' = r.cols
               /\ pc' = "split"
               /\ UNCHANGED raised
    /\ UNCHANGED <<params, write_lost, rmtree_failed, disk, tmp_dir, tmp,
                   header, reader, filenames, sort_i, merge_n,
                   sorted_filename>>

(* The ways writes to the first k chunk files can fail unnoticed: csvsplit *)
(* never closes the files it opens (line 88), the text reaches a file when *)
(* the file object is dropped, and an error at that point is not raised.   *)
(* cut[i] is the number of bytes that reached chunk file i, for the files  *)
(* that lost some.                                                         *)
CutChoices(texts, k) ==
    UNION { { cut \in [lost -> 0..MaxOf({0} \cup {Len(texts[i]) : i \in lost})] :
                \A i \in lost : cut[i] < Len(texts[i]) } :
            lost \in {S \in SUBSET (1..k) : Cardinality(S) <= MaxLost} }

(* The workspace with chunk files 1..j: file i holds the first cut[i]     *)
(* bytes of its text when cut names it, and its text otherwise.            *)
ChunkFiles(texts, j, cut) ==
    [f \in {SplitName(i - 1) : i \in 1..j} |->
        LET i == f[2] + 1
        IN IF i \in DOMAIN cut THEN SubSeq(texts[i], 1, cut[i]) ELSE texts[i]]

(* line 38: the whole of csvsplit *)
CsvSplit ==
    /\ pc = "split"
    /\ LET chunks == csvsplit(reader, max_size)
       IN /\ filenames' = [i \in 1..Len(chunks) |-> SplitName(i - 1)]
          /\ tmp' = [f \in {SplitName(i - 1) : i \in 1..Len(chunks)} |->
                        WriteRows(chunks[f[2] + 1])]
          /\ pc' = IF chunks = <<>> THEN "merge" ELSE "sort"
    /\ reader' = <<>>
    /\ sort_i' = 1
    /\ UNCHANGED <<params, write_lost, rmtree_failed, columns, disk, tmp_dir,
                   header, merge_n, sorted_filename, raised>>

(* lines 85-96 when the write to a chunk file fails unnoticed: csvsplit    *)
(* returns as usual and the chunk files of cut hold only the first bytes   *)
(* of their text.                                                          *)
CsvSplitWriteLost ==
    /\ pc = "split"
    /\ LET chunks == csvsplit(reader, max_size)
           texts == [i \in 1..Len(chunks) |-> WriteRows(chunks[i])]
           k == Len(chunks)
       IN /\ filenames' = [i \in 1..k |-> SplitName(i - 1)]
          /\ \E cut \in CutChoices(texts, k) :
                /\ DOMAIN cut # {}
                /\ tmp' = ChunkFiles(texts, k, cut)
    /\ pc' = "sort"
    /\ reader' = <<>>
    /\ sort_i' = 1
    /\ write_lost' = TRUE
    /\ UNCHANGED <<params, rmtree_failed, columns, disk, tmp_dir, header,
                   merge_n, sorted_filename, raised>>

(* lines 40-41: memorysort of the next file *)
MemorySort ==
    /\ pc = "sort"
    /\ LET f == filenames[sort_i]
           rows == ReadRows(tmp[f])
       IN IF \A i \in 1..Len(rows) : HasKey(rows[i], columns)
          THEN /\ tmp' = [tmp EXCEPT ![f] = WriteRows(SortRows(rows, columns))]
               /\ sort_i' = sort_i + 1
               /\ pc' = IF sort_i = Len(filenames) THEN "merge" ELSE "sort"
               /\ UNCHANGED raised
          ELSE Raise("IndexError") /\ UNCHANGED <<tmp, sort_i>>
    /\ UNCHANGED <<params, write_lost, rmtree_failed, columns, disk, tmp_dir,
                   header, reader, filenames, merge_n, sorted_filename>>

(* A pass that merges and never removes the files it merged. *)
MergePassKeep ==
    /\ pc = "merge"
    /\ Len(filenames) > 1
    /\ LET k == Min(nway, Len(filenames))
           merge_filenames == SubSeq(filenames, 1, k)
           rest == SubSeq(filenames, k + 1, Len(filenames))
           output == MergeName(merge_n)
           merged == MergeFiles([i \in 1..k |-> tmp[merge_filenames[i]]])
       IN /\ filenames' = Append(rest, output)
          /\ tmp' = (output :> merged) @@ tmp
    /\ merge_n' = merge_n + 1
    /\ UNCHANGED <<pc, params, write_lost, rmtree_failed, columns, disk,
                   tmp_dir, header, reader, sort_i, sorted_filename, raised>>

(* lines 122-134: one pass of the loop of mergesort *)
MergePass ==
    /\ pc = "merge"
    /\ Len(filenames) > 1
    /\ LET k == Min(nway, Len(filenames))
           merge_filenames == SubSeq(filenames, 1, k)
           rest == SubSeq(filenames, k + 1, Len(filenames))
           output == MergeName(merge_n)
           merged == MergeFiles([i \in 1..k |-> tmp[merge_filenames[i]]])
           removed == {merge_filenames[i] : i \in 1..k}
       IN /\ filenames' = Append(rest, output)
          /\ tmp' = [f \in (DOMAIN tmp \cup {output}) \ removed |->
                        IF f = output THEN merged ELSE tmp[f]]
    /\ merge_n' = merge_n + 1
    /\ UNCHANGED <<pc, params, write_lost, rmtree_failed, columns, disk,
                   tmp_dir, header, reader, sort_i, sorted_filename, raised>>

(* line 135: sorted_filenames[0] of an empty list is IndexError *)
MergeReturn ==
    /\ pc = "merge"
    /\ Len(filenames) <= 1
    /\ IF filenames = <<>>
       THEN Raise("IndexError") /\ UNCHANGED sorted_filename
       ELSE /\ sorted_filename' = filenames[1]
            /\ pc' = "write"
            /\ UNCHANGED raised
    /\ UNCHANGED <<params, write_lost, rmtree_failed, columns, disk, tmp_dir,
                   tmp, header, reader, filenames, sort_i, merge_n>>

(* what lines 48-52 write, in order *)
OutputRows ==
    (IF Truthy(header) THEN <<header[1]>> ELSE <<>>)
        \o ReadRows(tmp[sorted_filename])

(* the rows written before the first one the writer refuses *)
WritableCount(rows) ==
    IF \A i \in 1..Len(rows) : RowWritable(rows[i], quoting) THEN Len(rows)
    ELSE (CHOOSE i \in 1..Len(rows) :
             /\ ~RowWritable(rows[i], quoting)
             /\ \A j \in 1..(i - 1) : RowWritable(rows[j], quoting)) - 1

(* lines 46-52: open(..., 'w') empties the destination, then the header    *)
(* and the rows are written until one cannot be                            *)
WriteOutput ==
    /\ pc = "write"
    /\ LET rows == OutputRows
           n == WritableCount(rows)
       IN /\ disk' = (Dest :> WriteRows(SubSeq(rows, 1, n))) @@ disk
          /\ raised' = IF n = Len(rows) THEN "none" ELSE "csv.Error"
    /\ pc' = "finally"
    /\ UNCHANGED <<params, write_lost, rmtree_failed, columns, tmp_dir, tmp,
                   header, reader, filenames, sort_i, merge_n,
                   sorted_filename>>

(* An operating-system error (OSError) inside the try block. It can strike *)
(* partway through a step, after an open(..., 'w') has emptied a file and  *)
(* some of its bytes are written:                                          *)
(*   line 29:       the input cannot be opened;                            *)
(*   lines 85-95:   chunk files 1..j are written, the last one in part     *)
(*                  when the error struck while it was written, and the    *)
(*                  write to any of them may have failed unnoticed;        *)
(*   lines 102-107: the chunk file is not read, or is rewritten in part;   *)
(*   lines 125-134: the merged file is not opened, or is written in part   *)
(*                  with the merged files still there, or is whole with    *)
(*                  the first of the merged files removed;                 *)
(*   lines 46-52:   the destination is not opened, or holds the first      *)
(*                  bytes of what was to be written.                       *)
IOFailure ==
    /\ Raise("OSError")
    /\ \/ /\ pc = "open"
          /\ UNCHANGED <<disk, tmp, write_lost>>
       \/ /\ pc = "split"
          /\ LET chunks == csvsplit(reader, max_size)
                 texts == [i \in 1..Len(chunks) |-> WriteRows(chunks[i])]
             IN \/ tmp' = NoFiles /\ UNCHANGED write_lost
                \/ \E j \in 1..Len(texts) : \E cut \in CutChoices(texts, j) :
                      IF j \in DOMAIN cut
                      THEN /\ tmp' = ChunkFiles(texts, j, cut)
                           /\ write_lost' = TRUE
                      ELSE \E n \in 0..Len(texts[j]) :
                              /\ tmp' = ChunkFiles(texts, j, (j :> n) @@ cut)
                              /\ write_lost' = (DOMAIN cut # {})
          /\ UNCHANGED disk
       \/ /\ pc = "sort"
          /\ LET f == filenames[sort_i]
                 rows == ReadRows(tmp[f])
             IN \/ UNCHANGED tmp
                \/ /\ \A i \in 1..Len(rows) : HasKey(rows[i], columns)
                   /\ LET text == WriteRows(SortRows(rows, columns))
                      IN \E n \in 0..Len(text) :
                            tmp' = [tmp EXCEPT ![f] = SubSeq(text, 1, n)]
          /\ UNCHANGED <<disk, write_lost>>
       \/ /\ pc = "merge"
          /\ Len(filenames) > 1
          /\ LET k == Min(nway, Len(filenames))
                 merge_filenames == SubSeq(filenames, 1, k)
                 output == MergeName(merge_n)
                 merged == MergeFiles([i \in 1..k |-> tmp[merge_filenames[i]]])
             IN \/ UNCHANGED tmp
                \/ \E n \in 0..Len(merged) :
                      tmp' = (output :> SubSeq(merged, 1, n)) @@ tmp
                \/ \E j \in 1..(k - 1) :
                      tmp' = [f \in (DOMAIN tmp \cup {output})
                                       \ {merge_filenames[i] : i \in 1..j} |->
                                 IF f = output THEN merged ELSE tmp[f]]
          /\ UNCHANGED <<disk, write_lost>>
       \/ /\ pc = "write"
          /\ LET rows == OutputRows
                 text == WriteRows(SubSeq(rows, 1, WritableCount(rows)))
             IN \/ UNCHANGED disk
                \/ \E n \in 0..Len(text) :
                      disk' = (Dest :> SubSeq(text, 1, n)) @@ disk
          /\ UNCHANGED <<tmp, write_lost>>
    /\ UNCHANGED <<params, rmtree_failed, columns, tmp_dir,
                   header, reader, filenames, sort_i, merge_n,
                   sorted_filename>>

(* lines 53-54: shutil.rmtree(tmp_dir, ignore_errors=True), then return or *)
(* re-raise. Either the workspace is removed, or rmtree meets an error of  *)
(* the operating system and says nothing: the directory stays, with the    *)
(* files it could not remove.                                              *)
Cleanup ==
    /\ pc = "finally"
    /\ \/ /\ tmp_dir' = FALSE
          /\ tmp' = NoFiles
          /\ UNCHANGED rmtree_failed
       \/ /\ tmp_dir' = TRUE
          /\ \E kept \in SUBSET DOMAIN tmp : tmp' = [f \in kept |-> tmp[f]]
          /\ rmtree_failed' = TRUE
    /\ pc' = IF raised = "none" THEN "done" ELSE "failed"
    /\ UNCHANGED <<params, write_lost, columns, disk, header, reader,
                   filenames, sort_i, merge_n, sorted_filename, raised>>

Next ==
    \/ Makedirs
    \/ ReadHeader
    \/ ParseColumns
    \/ CsvSplit
    \/ MemorySort
    \/ MergePass
    \/ MergeReturn
    \/ WriteOutput
    \/ Cleanup
    \/ IOFailure
    \/ CsvSplitWriteLost

Spec == Init /\ [][Next]_vars

(***************************************************************************)
(* mergesort alone, for every fan-in: it starts from the chunk files that  *)
(* csvsplit and memorysort leave for an input without header.              *)
(***************************************************************************)
ResolvedChoices == { <<IntCol(0)>>, <<IntCol(1)>> }

(* the texts of the chunk files after the loop of line 40 *)
SortedChunks(rows, cols, size) ==
    LET chunks == csvsplit(rows, size)
    IN [i \in 1..Len(chunks) |-> WriteRows(SortRows(chunks[i], cols))]

InitMerge ==
    /\ pc = "merge"
    /\ input_rows \in SeqsUpTo(Rows \ {<<>>}, MaxMergeRows)
    /\ has_header = FALSE
    /\ columns \in ResolvedChoices
    /\ max_size \in MaxSizeChoices
    /\ quoting = "QUOTE_MINIMAL"
    /\ output_filename = ""
    /\ nway \in 2..MaxNway
    /\ disk = (InputPath :> WriteRows(input_rows))
    /\ tmp_dir = TRUE
    /\ LET texts == SortedChunks(input_rows, columns, max_size)
       IN /\ filenames = [i \in 1..Len(texts) |-> SplitName(i - 1)]
          /\ tmp = [f \in {SplitName(i - 1) : i \in 1..Len(texts)} |-> texts[f[2] + 1]]
          /\ sort_i = Len(texts) + 1
    /\ header = None
    /\ reader = <<>>
    /\ merge_n = 0
    /\ sorted_filename = SplitName(0)
    /\ raised = "none"
    /\ rmtree_failed = FALSE
    /\ write_lost = FALSE

NextMerge == MergePass \/ MergeReturn

SpecMerge == InitMerge /\ [][NextMerge]_vars

(***************************************************************************)
(* parse_columns alone, for every specifier list and header: it starts     *)
(* where line 36 is reached on a file of the header line only, or on an    *)
(* empty file read without header.                                         *)
(***************************************************************************)
Specifiers == {IntCol(n) : n \in 0..2} \cup {NameCol(s) : s \in FieldVals}

HeaderChoices == {None} \cup {Some(r) : r \in Rows}

InitParse ==
    /\ pc = "parse"
    /\ header \in HeaderChoices
    /\ columns \in SeqsUpTo(Specifiers, 2) \ {<<>>}
    /\ input_rows = header
    /\ has_header = (header # None)
    /\ max_size = 2000
    /\ quoting = "QUOTE_MINIMAL"
    /\ output_filename = ""
    /\ nway = 2
    /\ disk = (InputPath :> WriteRows(input_rows))
    /\ tmp_dir = TRUE
    /\ tmp = NoFiles
    /\ reader = <<>>
    /\ filenames = <<>>
    /\ sort_i = 0
    /\ merge_n = 0
    /\ sorted_filename = SplitName(0)
    /\ raised = "none"
    /\ rmtree_failed = FALSE
    /\ write_lost = FALSE

NextParse == ParseColumns

SpecParse == InitParse /\ [][NextParse]_vars

(***************************************************************************)
(* What the claims speak of                                                *)
(***************************************************************************)
Range(s) == {s[i] : i \in 1..Len(s)}

SeqToBag(s) == [r \in Range(s) |-> Cardinality({i \in 1..Len(s) : s[i] = r})]

(* the data rows of the input: all but the header line *)
DataRows == IF has_header /\ input_rows # <<>> THEN Tail(input_rows) ELSE input_rows

(* the rows of the destination file *)
OutRows == ReadRows(disk[Dest])

(* the rows of the destination after the header line csvsort wrote *)
OutData == IF Truthy(header) THEN Tail(OutRows) ELSE OutRows

(* the rows of all the files of the workspace, file after file *)
RECURSIVE RowsOf(_)
RowsOf(names) ==
    IF names = <<>> THEN <<>>
    ELSE ReadRows(tmp[Head(names)]) \o RowsOf(Tail(names))

(* the chunk files mergesort is given, from the input *)
Chunks0 == SortedChunks(DataRows, columns, max_size)

(* the rows of s whose key is k, in order *)
WithKey(s, k) == LET Test(r) == Key(r, columns) = k IN SelectSeq(s, Test)

EmptyInput == DataRows = <<>> /\ (has_header => input_rows # <<>>)

(***************************************************************************)
(* C1: order correctness. When csvsort has returned, every two adjacent    *)
(* data rows a, b of the destination have key(a) <= key(b), the key being  *)
(* the fields at the sort-key columns compared as text. Stated of the runs *)
(* in which every chunk file was written in full.                          *)
(***************************************************************************)
C1_OutputOrderedByKey ==
    (pc = "done" /\ ~write_lost) =>
        \A i \in 1..(Len(OutData) - 1) :
            ~ListLess(Key(OutData[i + 1], columns), Key(OutData[i], columns))

(***************************************************************************)
(* C2: stability. When csvsort has returned, the data rows of the          *)
(* destination that share a key are in the order they had in the input.    *)
(* Stated of the runs in which every chunk file was written in full.       *)
(***************************************************************************)
C2_OutputStable ==
    (pc = "done" /\ ~write_lost) =>
        \A r \in Range(DataRows) :
            WithKey(OutData, Key(r, columns)) = WithKey(DataRows, Key(r, columns))

(***************************************************************************)
(* C3: completeness. After csvsplit, after every memorysort and after      *)
(* every pass of mergesort the rows of the files of the workspace are, as  *)
(* a multiset, the data rows of the input; when csvsort has returned the   *)
(* data rows of the destination are that multiset too.                     *)
(***************************************************************************)
C3_Completeness ==
    /\ pc \in {"sort", "merge", "write"} =>
          /\ DOMAIN tmp = Range(filenames)
          /\ SeqToBag(RowsOf(filenames)) = SeqToBag(DataRows)
    /\ pc = "done" => SeqToBag(OutData) = SeqToBag(DataRows)

(***************************************************************************)
(* C4: an input without data rows is a valid run. Once the columns are     *)
(* resolved, csvsplit leaves no chunk file, nothing but an operating-      *)
(* system error is raised, and csvsort returns with the destination        *)
(* holding the header line alone.                                          *)
(***************************************************************************)
C4_EmptyInputValid ==
    (EmptyInput /\ sort_i >= 1) =>
        /\ filenames = <<>>
        /\ raised \in {"none", "OSError"}
        /\ pc = "done" => OutRows = (IF has_header THEN <<input_rows[1]>> ELSE <<>>)

(***************************************************************************)
(* C5: cleanup. However csvsort ends, by returning or by raising, the      *)
(* workspace directory and every file in it are gone.                      *)
(***************************************************************************)
C5_WorkspaceRemoved ==
    pc \in {"done", "failed"} => (~tmp_dir /\ tmp = NoFiles)

(***************************************************************************)
(* C6: the outcome of parse_columns. An int is taken as it is without a    *)
(* header and is out of range when a header exists and the int is >= its   *)
(* length; a name needs a header, fails as not found when the header lacks *)
(* it, and else becomes its position; on success the result has the length *)
(* and order of the specifiers and every index is within the header.       *)
(***************************************************************************)
Claimed(column) ==
    IF column.kind = "int"
    THEN IF header # None /\ column.idx >= Len(header[1])
         THEN [err |-> "ColumnOutOfRange", col |-> column]
         ELSE [err |-> "none", col |-> column]
    ELSE IF header = None THEN [err |-> "MissingHeader", col |-> column]
         ELSE IF ~InRow(header[1], column.name)
              THEN [err |-> "ColumnNotFound", col |-> column]
              ELSE [err |-> "none", col |-> IntCol(IndexOf(header[1], column.name))]

C6_ParseColumnsOutcome ==
    [][pc = "parse" =>
         LET errs == {Claimed(columns[i]).err : i \in 1..Len(columns)} \ {"none"}
         IN IF errs = {}
            THEN /\ pc' = "split"
                 /\ columns' = [i \in 1..Len(columns) |-> Claimed(columns[i]).col]
                 /\ header # None =>
                       \A i \in 1..Len(columns') :
                           columns'[i].idx \in 0..(Len(header[1]) - 1)
            ELSE /\ pc' = "finally"
                 /\ raised' \in errs]_vars

(***************************************************************************)
(* C7: fan-in independence. The file mergesort returns holds the same rows *)
(* in the same order as the one it returns from the same chunk files with  *)
(* any other fan-in.                                                       *)
(***************************************************************************)
C7_FanInIndependent ==
    pc = "write" =>
        \A n \in 2..MaxNway :
            ReadRows(tmp[sorted_filename]) = ReadRows(MergeSortTexts(Chunks0, n)[1])

(***************************************************************************)
(* C8: no partial output. When csvsort has raised, the input file and the  *)
(* destination are as they were before the run, also when it raised while  *)
(* the rows were being written to the destination. Stated of the runs in   *)
(* which every chunk file was written in full.                             *)
(***************************************************************************)
C8_NoPartialOutput ==
    (pc = "failed" /\ ~write_lost) => disk = (InputPath :> WriteRows(input_rows))

(***************************************************************************)
(* C9: header preservation. With has_header set, the files of the          *)
(* workspace hold the rows after the header line and no more, and when     *)
(* csvsort has returned the first row of the destination is the first row  *)
(* of the input. Stated of the runs in which every chunk file was written  *)
(* in full.                                                                *)
(***************************************************************************)
C9_HeaderPreserved ==
    (has_header /\ ~write_lost) =>
        /\ pc \in {"sort", "merge", "write"} =>
              Len(RowsOf(filenames)) = Len(input_rows) - 1
        /\ pc = "done" => (OutRows # <<>> /\ OutRows[1] = input_rows[1])

(***************************************************************************)
(* C10: mergesort ends and keeps the workspace small. Every pass leaves    *)
(* fewer files than it found (and at least one), has removed the files it  *)
(* merged and has put the merged file last in the list, after the files   *)
(* it did not merge, in the order they had; the step taken                *)
(* with one file left returns that file and touches no file, and the file  *)
(* returned is the only file left; a single chunk is returned as it is     *)
(* without a pass.                                                         *)
(***************************************************************************)
PassDone ==
    /\ Len(filenames') < Len(filenames)
    /\ Len(filenames') >= 1
    /\ \A i \in 1..Min(nway, Len(filenames)) : filenames[i] \notin DOMAIN tmp'
    /\ filenames'[Len(filenames')] = MergeName(merge_n)
    /\ SubSeq(filenames', 1, Len(filenames') - 1)
          = SubSeq(filenames, Min(nway, Len(filenames)) + 1, Len(filenames))
    /\ DOMAIN tmp' = Range(filenames')
    /\ Cardinality(DOMAIN tmp') = Len(filenames')

Returned ==
    /\ filenames = <<sorted_filename>>
    /\ DOMAIN tmp = {sorted_filename}
    /\ Len(Chunks0) = 1 =>
          /\ merge_n = 0
          /\ sorted_filename = SplitName(0)
          /\ tmp[sorted_filename] = Chunks0[1]

C10_MergeLifecycle ==
    /\ [][(pc = "merge" /\ Len(filenames) > 1) => PassDone]_vars
    /\ [](pc = "write" => Returned)
    /\ [][(pc = "merge" /\ Len(filenames) = 1) =>
             (pc' = "write" /\ sorted_filename' = filenames[1] /\ tmp' = tmp)]_vars

(* three chunks merged two at a time: two passes, then the return *)
C10_Witness ==
    /\ pc = "write"
    /\ nway = 2
    /\ merge_n = 2

====
